---- MODULE Spec2Model ----
(***************************************************************************)
(* Model of the binsearchtree crate: the boxed Tree of lib.rs (insert,     *)
(* get, len, is_empty, iter, rotate_l, rotate_r), the arena LTree of       *)
(* ltree.rs (insert, get, new_slot) and the size-tracking Tree of tree.rs  *)
(* over the Node of node.rs.                                               *)
(*                                                                         *)
(* Option<T> is a sequence of length 0 (None) or 1 (Some(x)).  Keys and    *)
(* values are small integers; Ord::cmp on keys is the integer order.       *)
(***************************************************************************)
EXTENDS Integers, Sequences, FiniteSets, TLC

MaxKey == 3
MaxVal == 2
MaxSize == 4
MaxNone == 2
MaxCalls == 3

MaxSlots == 3

MaxCmpKey == 2

Keys == 1..MaxKey
Vals == 1..MaxVal

None == <<>>
Some(x) == <<x>>

VARIABLES sut, tree, ltree, rnode, stree, twin, iter, out, model, last, prev

vars == <<sut, tree, ltree, rnode, stree, twin, iter, out, model, last, prev>>

(***************************************************************************)
(* lib.rs: Node<K, V> and Tree<K, V>(Option<Box<Node<K, V>>>)              *)
(***************************************************************************)
Node_new(k, v) == [k |-> k, v |-> v, l |-> None, r |-> None]

\* Node::insert storing a greater key as the right child without descending
Node_insert_over(self, k, v) ==
  IF self.k = k
    THEN [node |-> [self EXCEPT !.v = v], ret |-> Some(self.v)]
    ELSE IF self.k > k
      THEN [node |-> [self EXCEPT !.l = Some(Node_new(k, v))], ret |-> None]
      ELSE [node |-> [self EXCEPT !.r = Some(Node_new(k, v))], ret |-> None]

\* Node::insert returning the old value of an existing key without storing the new one
RECURSIVE Node_insert_keep(_, _, _)
Node_insert_keep(self, k, v) ==
  IF self.k = k
    THEN [node |-> self, ret |-> Some(self.v)]
    ELSE IF self.k > k
      THEN IF self.l = None
        THEN [node |-> [self EXCEPT !.l = Some(Node_new(k, v))], ret |-> None]
        ELSE LET res == Node_insert_keep(self.l[1], k, v)
             IN [node |-> [self EXCEPT !.l = Some(res.node)], ret |-> res.ret]
      ELSE IF self.r = None
        THEN [node |-> [self EXCEPT !.r = Some(Node_new(k, v))], ret |-> None]
        ELSE LET res == Node_insert_keep(self.r[1], k, v)
             IN [node |-> [self EXCEPT !.r = Some(res.node)], ret |-> res.ret]

RECURSIVE Node_insert(_, _, _)
Node_insert(self, k, v) ==
  IF self.k = k
    THEN [node |-> [self EXCEPT !.v = v], ret |-> Some(self.v)]
    ELSE IF self.k > k
      THEN IF self.l = None
        THEN [node |-> [self EXCEPT !.l = Some(Node_new(k, v))], ret |-> None]
        ELSE LET res == Node_insert(self.l[1], k, v)
             IN [node |-> [self EXCEPT !.l = Some(res.node)], ret |-> res.ret]
      ELSE IF self.r = None
        THEN [node |-> [self EXCEPT !.r = Some(Node_new(k, v))], ret |-> None]
        ELSE LET res == Node_insert(self.r[1], k, v)
             IN [node |-> [self EXCEPT !.r = Some(res.node)], ret |-> res.ret]

\* Node::get descending with Greater and Less exchanged
RECURSIVE Node_get_rev(_, _)
Node_get_rev(self, k) ==
  IF self.k = k
    THEN Some(self.v)
    ELSE LET lr == IF self.k < k THEN self.l ELSE self.r
         IN IF lr = None THEN None ELSE Node_get_rev(lr[1], k)

RECURSIVE Node_get(_, _)
Node_get(self, k) ==
  IF self.k = k
    THEN Some(self.v)
    ELSE LET lr == IF self.k > k THEN self.l ELSE self.r
         IN IF lr = None THEN None ELSE Node_get(lr[1], k)

RECURSIVE Node_len(_)
Node_len(self) ==
  (IF self.l = None THEN 0 ELSE Node_len(self.l[1]))
    + 1
    + (IF self.r = None THEN 0 ELSE Node_len(self.r[1]))

Tree_new == None

\* Tree::insert dropping the result of Node::insert
Tree_insert_noret(self, k, v) ==
  IF self = None
    THEN [tree |-> Some(Node_new(k, v)), ret |-> None]
    ELSE LET res == Node_insert(self[1], k, v)
         IN [tree |-> Some(res.node), ret |-> None]

Tree_insert(self, k, v) ==
  IF self = None
    THEN [tree |-> Some(Node_new(k, v)), ret |-> None]
    ELSE LET res == Node_insert(self[1], k, v)
         IN [tree |-> Some(res.node), ret |-> res.ret]

Tree_get(self, k) == IF self = None THEN None ELSE Node_get(self[1], k)

\* Tree::len with map_or(1, ..)
Tree_len_one(self) == IF self = None THEN 1 ELSE Node_len(self[1])

Tree_len(self) == IF self = None THEN 0 ELSE Node_len(self[1])

\* Tree::is_empty answering for a tree without children below the root
Tree_is_empty_leaf(self) == self = None \/ (self[1].l = None /\ self[1].r = None)

Tree_is_empty(self) == self = None

\* rotate_r leaving root.l empty instead of handing it pivot.r
rotate_r_drop(root) ==
  IF root = None
    THEN None
    ELSE LET rt == root[1]
         IN IF rt.l = None
              THEN Some(rt)
              ELSE LET pivot == rt.l[1]
                   IN Some([pivot EXCEPT !.r = Some([rt EXCEPT !.l = None])])

\* rotate_r hanging the old root on the pivot's left
rotate_r_swap(root) ==
  IF root = None
    THEN None
    ELSE LET rt == root[1]
         IN IF rt.l = None
              THEN Some(rt)
              ELSE LET pivot == rt.l[1]
                   IN Some([pivot EXCEPT !.l = Some([rt EXCEPT !.l = pivot.r])])

\* rotate_r dropping a root that has no left child instead of putting it back
rotate_r_lose(root) ==
  IF root = None
    THEN None
    ELSE LET rt == root[1]
         IN IF rt.l = None
              THEN None
              ELSE LET pivot == rt.l[1]
                   IN Some([pivot EXCEPT !.r = Some([rt EXCEPT !.l = pivot.r])])

rotate_r(root) ==
  IF root = None
    THEN None
    ELSE LET rt == root[1]
         IN IF rt.l = None
              THEN Some(rt)
              ELSE LET pivot == rt.l[1]
                   IN Some([pivot EXCEPT !.r = Some([rt EXCEPT !.l = pivot.r])])

\* rotate_l putting the taken root back as it was, pivot or not
rotate_l_back(root) ==
  IF root = None
    THEN None
    ELSE LET rt == root[1]
         IN Some(rt)

\* rotate_l leaving root.r empty instead of handing it pivot.l
rotate_l_drop(root) ==
  IF root = None
    THEN None
    ELSE LET rt == root[1]
         IN IF rt.r = None
              THEN Some(rt)
              ELSE LET pivot == rt.r[1]
                   IN Some([pivot EXCEPT !.l = Some([rt EXCEPT !.r = None])])

\* rotate_l hanging the old root on the pivot's right
rotate_l_swap(root) ==
  IF root = None
    THEN None
    ELSE LET rt == root[1]
         IN IF rt.r = None
              THEN Some(rt)
              ELSE LET pivot == rt.r[1]
                   IN Some([pivot EXCEPT !.r = Some([rt EXCEPT !.r = pivot.l])])

rotate_l(root) ==
  IF root = None
    THEN None
    ELSE LET rt == root[1]
         IN IF rt.r = None
              THEN Some(rt)
              ELSE LET pivot == rt.r[1]
                   IN Some([pivot EXCEPT !.l = Some([rt EXCEPT !.r = pivot.l])])

(***************************************************************************)
(* lib.rs: NodeIter and Iter.  A reference to a node is the node's value.  *)
(***************************************************************************)
NodeIter_new(t) == [curr |-> t, stack |-> <<>>]

RECURSIVE NodeIter_descend(_)
NodeIter_descend(self) ==
  IF self.curr = None
    THEN self
    ELSE NodeIter_descend([curr |-> self.curr[1].l,
                           stack |-> Append(self.stack, self.curr[1])])

\* NodeIter::next taking the oldest entry of the stack instead of the newest
NodeIter_next_fifo(self) ==
  LET d == NodeIter_descend(self)
  IN IF d.stack # <<>>
       THEN LET it == d.stack[1]
            IN [iter |-> [curr |-> it.r, stack |-> SubSeq(d.stack, 2, Len(d.stack))],
                item |-> Some(it)]
       ELSE [iter |-> d, item |-> None]

\* NodeIter::next not moving the cursor to the right child of the popped node
NodeIter_next_noright(self) ==
  LET d == NodeIter_descend(self)
  IN IF d.stack # <<>>
       THEN LET it == d.stack[Len(d.stack)]
            IN [iter |-> [curr |-> None, stack |-> SubSeq(d.stack, 1, Len(d.stack) - 1)],
                item |-> Some(it)]
       ELSE [iter |-> d, item |-> None]

\* NodeIter::next descending the left spine only when the stack is empty at the pop
NodeIter_next_late(self) ==
  IF self.stack # <<>>
    THEN LET it == self.stack[Len(self.stack)]
         IN [iter |-> [curr |-> it.r, stack |-> SubSeq(self.stack, 1, Len(self.stack) - 1)],
             item |-> Some(it)]
    ELSE [iter |-> NodeIter_descend(self), item |-> None]

NodeIter_next(self) ==
  LET d == NodeIter_descend(self)
  IN IF d.stack # <<>>
       THEN LET it == d.stack[Len(d.stack)]
            IN [iter |-> [curr |-> it.r, stack |-> SubSeq(d.stack, 1, Len(d.stack) - 1)],
                item |-> Some(it)]
       ELSE [iter |-> d, item |-> None]

Iter_next(self) ==
  LET res == NodeIter_next(self)
  IN [iter |-> res.iter,
      item |-> IF res.item = None THEN None ELSE Some(<<res.item[1].k, res.item[1].v>>)]

(***************************************************************************)
(* ltree.rs: LTree<K, V> { root, node_slots, free_slots } and LNode.       *)
(* Slot indices are 0-based as in the source: node_slots[i] of the source  *)
(* is node_slots[i + 1] here.  A panic (index out of range, expect on a    *)
(* None slot, failed debug_assert) is reported in the `panic` field.       *)
(***************************************************************************)
LNode_new(k, v) == [k |-> k, v |-> v, l |-> None, r |-> None]

LTree_new == [root |-> None, node_slots |-> <<>>, free_slots |-> <<>>]

\* LTree::new_slot taking the oldest entry of free_slots instead of the newest
LTree_new_slot_fifo(self) ==
  LET popped == self.free_slots # <<>>
      slots == IF popped THEN self.node_slots ELSE Append(self.node_slots, None)
      slot == IF popped THEN self.free_slots[1] ELSE Len(slots) - 1
      free == IF popped THEN SubSeq(self.free_slots, 2, Len(self.free_slots))
                        ELSE self.free_slots
  IN [t |-> [self EXCEPT !.node_slots = slots, !.free_slots = free],
      slot |-> slot,
      panic |-> ~(slot < Len(slots) /\ slots[slot + 1] = None)]

\* LTree::new_slot returning node_slots.len() instead of node_slots.len() - 1
LTree_new_slot_len(self) ==
  LET popped == self.free_slots # <<>>
      slots == IF popped THEN self.node_slots ELSE Append(self.node_slots, None)
      slot == IF popped THEN self.free_slots[Len(self.free_slots)] ELSE Len(slots)
      free == IF popped THEN SubSeq(self.free_slots, 1, Len(self.free_slots) - 1)
                        ELSE self.free_slots
  IN [t |-> [self EXCEPT !.node_slots = slots, !.free_slots = free],
      slot |-> slot,
      panic |-> ~(slot < Len(slots) /\ slots[slot + 1] = None)]

LTree_new_slot(self) ==
  LET popped == self.free_slots # <<>>
      slots == IF popped THEN self.node_slots ELSE Append(self.node_slots, None)
      slot == IF popped THEN self.free_slots[Len(self.free_slots)] ELSE Len(slots) - 1
      free == IF popped THEN SubSeq(self.free_slots, 1, Len(self.free_slots) - 1)
                        ELSE self.free_slots
  IN [t |-> [self EXCEPT !.node_slots = slots, !.free_slots = free],
      slot |-> slot,
      panic |-> ~(slot < Len(slots) /\ slots[slot + 1] = None)]

RECURSIVE LTree_insert_at_slot(_, _, _, _)
LTree_insert_at_slot(self, idx, k, v) ==
  IF ~(Len(self.node_slots) > idx)
    THEN [t |-> self, ret |-> None, panic |-> TRUE]
    ELSE IF self.node_slots[idx + 1] = None
      THEN [t |-> [self EXCEPT !.node_slots[idx + 1] = Some(LNode_new(k, v))],
            ret |-> None, panic |-> FALSE]
      ELSE LET node == self.node_slots[idx + 1][1]
           IN IF node.k = k
                THEN [t |-> [self EXCEPT !.node_slots[idx + 1] = Some([node EXCEPT !.v = v])],
                      ret |-> Some(node.v), panic |-> FALSE]
                ELSE LET maybe_slot == IF node.k < k THEN <<node.l, FALSE>>
                                                     ELSE <<node.r, TRUE>>
                     IN IF maybe_slot[1] # None
                          THEN LTree_insert_at_slot(self, maybe_slot[1][1], k, v)
                          ELSE LET ns == LTree_new_slot(self)
                                   linked == IF maybe_slot[2]
                                               THEN [node EXCEPT !.r = Some(ns.slot)]
                                               ELSE [node EXCEPT !.l = Some(ns.slot)]
                               IN IF ns.panic
                                    THEN [t |-> ns.t, ret |-> None, panic |-> TRUE]
                                    ELSE [t |-> [ns.t EXCEPT
                                                   !.node_slots[idx + 1] = Some(linked),
                                                   !.node_slots[ns.slot + 1] = Some(LNode_new(k, v))],
                                          ret |-> None, panic |-> FALSE]

\* LTree::insert that does not record the slot of the first node as the root
LTree_insert_noroot(self, k, v) ==
  IF self.root = None
    THEN LET ns == LTree_new_slot(self)
         IN IF ns.panic
              THEN [t |-> ns.t, ret |-> None, panic |-> TRUE]
              ELSE LTree_insert_at_slot(ns.t, ns.slot, k, v)
    ELSE LTree_insert_at_slot(self, self.root[1], k, v)

\* LTree::insert written with self.root.unwrap_or(self.new_slot()), which
\* evaluates new_slot on every call
LTree_insert_eager(self, k, v) ==
  LET ns == LTree_new_slot(self)
  IN IF ns.panic
       THEN [t |-> ns.t, ret |-> None, panic |-> TRUE]
       ELSE IF self.root = None
         THEN LTree_insert_at_slot([ns.t EXCEPT !.root = Some(ns.slot)], ns.slot, k, v)
         ELSE LTree_insert_at_slot(ns.t, self.root[1], k, v)

LTree_insert(self, k, v) ==
  IF self.root = None
    THEN LET ns == LTree_new_slot(self)
         IN IF ns.panic
              THEN [t |-> ns.t, ret |-> None, panic |-> TRUE]
              ELSE LTree_insert_at_slot([ns.t EXCEPT !.root = Some(ns.slot)], ns.slot, k, v)
    ELSE LTree_insert_at_slot(self, self.root[1], k, v)

\* LTree::get_slot descending with Less and Greater exchanged
RECURSIVE LTree_get_slot_rev(_, _, _)
LTree_get_slot_rev(self, slot, k) ==
  IF ~(slot < Len(self.node_slots)) \/ self.node_slots[slot + 1] = None
    THEN [ret |-> None, panic |-> TRUE]
    ELSE LET node == self.node_slots[slot + 1][1]
         IN IF node.k = k
              THEN [ret |-> Some(node.v), panic |-> FALSE]
              ELSE LET maybe_slot == IF node.k < k THEN node.r ELSE node.l
                   IN IF maybe_slot = None
                        THEN [ret |-> None, panic |-> FALSE]
                        ELSE LTree_get_slot_rev(self, maybe_slot[1], k)

RECURSIVE LTree_get_slot(_, _, _)
LTree_get_slot(self, slot, k) ==
  IF ~(slot < Len(self.node_slots)) \/ self.node_slots[slot + 1] = None
    THEN [ret |-> None, panic |-> TRUE]
    ELSE LET node == self.node_slots[slot + 1][1]
         IN IF node.k = k
              THEN [ret |-> Some(node.v), panic |-> FALSE]
              ELSE LET maybe_slot == IF node.k < k THEN node.l ELSE node.r
                   IN IF maybe_slot = None
                        THEN [ret |-> None, panic |-> FALSE]
                        ELSE LTree_get_slot(self, maybe_slot[1], k)

\* LTree::get starting at slot 0 when there is no root
LTree_get_unwrap(self, k) ==
  LTree_get_slot(self, IF self.root = None THEN 0 ELSE self.root[1], k)

LTree_get(self, k) ==
  IF self.root = None
    THEN [ret |-> None, panic |-> FALSE]
    ELSE LTree_get_slot(self, self.root[1], k)

(***************************************************************************)
(* LTree under a key order that is not total.  K: Ord is whatever cmp the  *)
(* key type supplies: here node.k.cmp(&k) may give any of the three        *)
(* answers at every comparison, and an operation yields the set of the     *)
(* results it can have.  cmps counts the comparisons a call made; a call   *)
(* is followed for n comparisons and more tells that it needed another.    *)
(***************************************************************************)
Orderings == {"Less", "Equal", "Greater"}

\* LTree::insert_at_slot pairing node.l with the flag of the right side
RECURSIVE LTree_insert_at_slot_by_side(_, _, _, _, _)
LTree_insert_at_slot_by_side(self, idx, k, v, n) ==
  IF ~(Len(self.node_slots) > idx)
    THEN {[t |-> self, ret |-> None, panic |-> TRUE, cmps |-> 0, more |-> FALSE]}
    ELSE IF self.node_slots[idx + 1] = None
      THEN {[t |-> [self EXCEPT !.node_slots[idx + 1] = Some(LNode_new(k, v))],
             ret |-> None, panic |-> FALSE, cmps |-> 0, more |-> FALSE]}
      ELSE IF n = 0
        THEN {[t |-> self, ret |-> None, panic |-> FALSE, cmps |-> 0, more |-> TRUE]}
        ELSE LET node == self.node_slots[idx + 1][1]
                 maybe_slot(ord) == IF ord = "Less" THEN <<node.l, TRUE>>
                                                    ELSE <<node.r, TRUE>>
                 ns == LTree_new_slot(self)
                 linked(right) == IF right THEN [node EXCEPT !.r = Some(ns.slot)]
                                           ELSE [node EXCEPT !.l = Some(ns.slot)]
             IN UNION {
                  IF ord = "Equal"
                    THEN {[t |-> [self EXCEPT
                                    !.node_slots[idx + 1] = Some([node EXCEPT !.v = v])],
                           ret |-> Some(node.v), panic |-> FALSE, cmps |-> 1, more |-> FALSE]}
                    ELSE IF maybe_slot(ord)[1] # None
                      THEN {[sub EXCEPT !.cmps = @ + 1] :
                              sub \in LTree_insert_at_slot_by_side(self, maybe_slot(ord)[1][1], k, v, n - 1)}
                      ELSE IF ns.panic
                        THEN {[t |-> ns.t, ret |-> None, panic |-> TRUE,
                               cmps |-> 1, more |-> FALSE]}
                        ELSE {[t |-> [ns.t EXCEPT
                                        !.node_slots[idx + 1] = Some(linked(maybe_slot(ord)[2])),
                                        !.node_slots[ns.slot + 1] = Some(LNode_new(k, v))],
                               ret |-> None, panic |-> FALSE, cmps |-> 1, more |-> FALSE]}
                  : ord \in Orderings}

RECURSIVE LTree_insert_at_slot_by(_, _, _, _, _)
LTree_insert_at_slot_by(self, idx, k, v, n) ==
  IF ~(Len(self.node_slots) > idx)
    THEN {[t |-> self, ret |-> None, panic |-> TRUE, cmps |-> 0, more |-> FALSE]}
    ELSE IF self.node_slots[idx + 1] = None
      THEN {[t |-> [self EXCEPT !.node_slots[idx + 1] = Some(LNode_new(k, v))],
             ret |-> None, panic |-> FALSE, cmps |-> 0, more |-> FALSE]}
      ELSE IF n = 0
        THEN {[t |-> self, ret |-> None, panic |-> FALSE, cmps |-> 0, more |-> TRUE]}
        ELSE LET node == self.node_slots[idx + 1][1]
                 maybe_slot(ord) == IF ord = "Less" THEN <<node.l, FALSE>>
                                                    ELSE <<node.r, TRUE>>
                 ns == LTree_new_slot(self)
                 linked(right) == IF right THEN [node EXCEPT !.r = Some(ns.slot)]
                                           ELSE [node EXCEPT !.l = Some(ns.slot)]
             IN UNION {
                  IF ord = "Equal"
                    THEN {[t |-> [self EXCEPT
                                    !.node_slots[idx + 1] = Some([node EXCEPT !.v = v])],
                           ret |-> Some(node.v), panic |-> FALSE, cmps |-> 1, more |-> FALSE]}
                    ELSE IF maybe_slot(ord)[1] # None
                      THEN {[sub EXCEPT !.cmps = @ + 1] :
                              sub \in LTree_insert_at_slot_by(self, maybe_slot(ord)[1][1], k, v, n - 1)}
                      ELSE IF ns.panic
                        THEN {[t |-> ns.t, ret |-> None, panic |-> TRUE,
                               cmps |-> 1, more |-> FALSE]}
                        ELSE {[t |-> [ns.t EXCEPT
                                        !.node_slots[idx + 1] = Some(linked(maybe_slot(ord)[2])),
                                        !.node_slots[ns.slot + 1] = Some(LNode_new(k, v))],
                               ret |-> None, panic |-> FALSE, cmps |-> 1, more |-> FALSE]}
                  : ord \in Orderings}

LTree_insert_by(self, k, v, n) ==
  IF self.root = None
    THEN LET ns == LTree_new_slot(self)
         IN IF ns.panic
              THEN {[t |-> ns.t, ret |-> None, panic |-> TRUE, cmps |-> 0, more |-> FALSE]}
              ELSE LTree_insert_at_slot_by([ns.t EXCEPT !.root = Some(ns.slot)],
                                           ns.slot, k, v, n)
    ELSE LTree_insert_at_slot_by(self, self.root[1], k, v, n)

RECURSIVE LTree_get_slot_by(_, _, _, _)
LTree_get_slot_by(self, slot, k, n) ==
  IF ~(slot < Len(self.node_slots)) \/ self.node_slots[slot + 1] = None
    THEN {[ret |-> None, panic |-> TRUE, cmps |-> 0, more |-> FALSE]}
    ELSE IF n = 0
      THEN {[ret |-> None, panic |-> FALSE, cmps |-> 0, more |-> TRUE]}
      ELSE LET node == self.node_slots[slot + 1][1]
               maybe_slot(ord) == IF ord = "Less" THEN node.l ELSE node.r
           IN UNION {
                IF ord = "Equal"
                  THEN {[ret |-> Some(node.v), panic |-> FALSE, cmps |-> 1, more |-> FALSE]}
                  ELSE IF maybe_slot(ord) = None
                    THEN {[ret |-> None, panic |-> FALSE, cmps |-> 1, more |-> FALSE]}
                    ELSE {[sub EXCEPT !.cmps = @ + 1] :
                            sub \in LTree_get_slot_by(self, maybe_slot(ord)[1], k, n - 1)}
                : ord \in Orderings}

LTree_get_by(self, k, n) ==
  IF self.root = None
    THEN {[ret |-> None, panic |-> FALSE, cmps |-> 0, more |-> FALSE]}
    ELSE LTree_get_slot_by(self, self.root[1], k, n)

(***************************************************************************)
(* node.rs: Node { inner: Option<Box<InnerNode>> }, and tree.rs:           *)
(* Tree { size, root: Option<Node> }.                                      *)
(***************************************************************************)
NodeRs_default == [inner |-> None]

NodeRs_new(k, v) ==
  [inner |-> Some([key |-> k, value |-> v,
                   left |-> NodeRs_default, right |-> NodeRs_default])]

RECURSIVE NodeRs_insert(_, _, _)
NodeRs_insert(self, key, value) ==
  IF self.inner = None
    THEN [node |-> NodeRs_new(key, value), ret |-> None]
    ELSE LET inner == self.inner[1]
         IN IF inner.key > key
              THEN LET res == NodeRs_insert(inner.left, key, value)
                   IN [node |-> [inner |-> Some([inner EXCEPT !.left = res.node])],
                       ret |-> res.ret]
              ELSE IF inner.key = key
                THEN [node |-> [inner |-> Some([inner EXCEPT !.value = value])],
                      ret |-> Some(inner.value)]
                ELSE LET res == NodeRs_insert(inner.right, key, value)
                     IN [node |-> [inner |-> Some([inner EXCEPT !.right = res.node])],
                         ret |-> res.ret]

RECURSIVE NodeRs_get(_, _)
NodeRs_get(self, key) ==
  IF self.inner = None
    THEN None
    ELSE LET inner == self.inner[1]
         IN IF inner.key > key
              THEN NodeRs_get(inner.left, key)
              ELSE IF inner.key = key
                THEN Some(inner.value)
                ELSE NodeRs_get(inner.right, key)

RECURSIVE NodeRs_len(_)
NodeRs_len(self) ==
  IF self.inner = None
    THEN 0
    ELSE NodeRs_len(self.inner[1].left) + 1 + NodeRs_len(self.inner[1].right)

TreeRs_new == [size |-> 0, root |-> None]

TreeRs_insert(self, key, value) ==
  LET res == IF self.root = None
               THEN [root |-> None, ret |-> None]
               ELSE LET r == NodeRs_insert(self.root[1], key, value)
                    IN [root |-> Some(r.node), ret |-> r.ret]
  IN IF res.ret = None
       THEN [t |-> [size |-> self.size + 1, root |-> res.root], ret |-> res.ret]
       ELSE [t |-> [size |-> self.size, root |-> res.root], ret |-> res.ret]

TreeRs_get(self, key) ==
  IF self.root = None THEN None ELSE NodeRs_get(self.root[1], key)

(***************************************************************************)
(* The state.  sut names the containers the run exercises: "Tree" is the   *)
(* boxed Tree alone (insert, get, rotations at the root), "Pair" the boxed *)
(* Tree and the LTree given the same insert and get calls, with the Node   *)
(* of node.rs given the same insert calls.  tree, ltree, rnode and stree   *)
(* are the containers; iter is the live Iter over tree (None when there is *)
(* none) and out the items its next() calls returned.  twin is a second    *)
(* boxed Tree and LTree of their own, with the last value passed to their  *)
(* insert for each key, and same tells that they were given exactly the    *)
(* calls tree and ltree were given.                                        *)
(* model, last and prev are history: the last value passed to insert for   *)
(* each key, the last call with its results and the boxed tree before it,  *)
(* and the call before the last one when that call was a rotation.         *)
(***************************************************************************)
NoCall == [op |-> "none", k |-> 0, v |-> 0, ret |-> None, lret |-> None,
           lpanic |-> FALSE, pre |-> None, cmps |-> 0, more |-> FALSE]

NoTwin == [tree |-> Tree_new, ltree |-> LTree_new, model |-> [k \in Keys |-> None],
           same |-> TRUE]

NoPrev == [op |-> "none", pre |-> None]

IsRotation(op) == op \in {"rotate_l", "rotate_r"}

Shift == IF IsRotation(last.op) THEN [op |-> last.op, pre |-> last.pre] ELSE NoPrev

Fresh ==
  /\ tree = Tree_new
  /\ ltree = LTree_new
  /\ rnode = NodeRs_default
  /\ stree = TreeRs_new
  /\ twin = NoTwin
  /\ iter = None
  /\ out = <<>>
  /\ model = [k \in Keys |-> None]
  /\ last = NoCall
  /\ prev = NoPrev

Init ==
  /\ sut \in {"Tree", "Pair"}
  /\ Fresh

\* tree.insert(k, v) and, in a Pair run, ltree.insert(k, v) and rnode.insert(k, v)
Insert(k, v) ==
  /\ LET res == Tree_insert(tree, k, v)
         lres == IF sut = "Pair" THEN LTree_insert(ltree, k, v)
                                 ELSE [t |-> ltree, ret |-> None, panic |-> FALSE]
     IN /\ tree' = res.tree
        /\ ltree' = lres.t
        /\ rnode' = IF sut = "Pair" THEN NodeRs_insert(rnode, k, v).node ELSE rnode
        /\ last' = [op |-> "insert", k |-> k, v |-> v, ret |-> res.ret,
                    lret |-> lres.ret, lpanic |-> lres.panic, pre |-> tree,
                    cmps |-> 0, more |-> FALSE]
  /\ model' = [model EXCEPT ![k] = Some(v)]
  /\ prev' = Shift
  /\ UNCHANGED <<sut, twin, stree, iter, out>>

\* tree.get(&k) and, in a Pair run, ltree.get(&k)
Get(k) ==
  /\ LET lres == IF sut = "Pair" THEN LTree_get(ltree, k)
                                 ELSE [ret |-> None, panic |-> FALSE]
     IN last' = [op |-> "get", k |-> k, v |-> 0, ret |-> Tree_get(tree, k),
                 lret |-> lres.ret, lpanic |-> lres.panic, pre |-> tree,
                    cmps |-> 0, more |-> FALSE]
  /\ prev' = Shift
  /\ UNCHANGED <<sut, twin, rnode, tree, ltree, stree, iter, out, model>>

\* rotate_l(&mut tree.0)
RotateL ==
  /\ sut = "Tree"
  /\ tree' = rotate_l(tree)
  /\ last' = [NoCall EXCEPT !.op = "rotate_l", !.pre = tree]
  /\ prev' = Shift
  /\ UNCHANGED <<sut, twin, rnode, ltree, stree, iter, out, model>>

\* rotate_r(&mut tree.0)
RotateR ==
  /\ sut = "Tree"
  /\ tree' = rotate_r(tree)
  /\ last' = [NoCall EXCEPT !.op = "rotate_r", !.pre = tree]
  /\ prev' = Shift
  /\ UNCHANGED <<sut, twin, rnode, ltree, stree, iter, out, model>>

Next ==
  \/ \E k \in Keys, v \in Vals : Insert(k, v)
  \/ \E k \in Keys : Get(k)
  \/ RotateL
  \/ RotateR

Spec == Init /\ [][Next]_vars

(***************************************************************************)
(* Iteration.  The iterator borrows the tree, which therefore does not     *)
(* change while it lives: a run of SpecIter starts from a Tree built from  *)
(* Tree::new() by at most MaxCalls insert calls and drives iterators over  *)
(* it.                                                                     *)
(***************************************************************************)
InsertCalls == UNION {[1..n -> Keys \X Vals] : n \in 0..MaxCalls}

RECURSIVE Build(_)
Build(calls) ==
  IF calls = <<>>
    THEN Tree_new
    ELSE LET n == Len(calls)
         IN Tree_insert(Build(SubSeq(calls, 1, n - 1)), calls[n][1], calls[n][2]).tree

InitIter ==
  /\ sut = "Tree"
  /\ ltree = LTree_new
  /\ rnode = NodeRs_default
  /\ stree = TreeRs_new
  /\ twin = NoTwin
  /\ model = [k \in Keys |-> None]
  /\ last = NoCall
  /\ prev = NoPrev
  /\ tree \in {Build(calls) : calls \in InsertCalls}
  /\ iter = None
  /\ out = <<>>

NoneCount(s) == Cardinality({i \in 1..Len(s) : s[i] = None})

\* let it = tree.iter()
IterNew ==
  /\ iter = None
  /\ iter' = Some(NodeIter_new(tree))
  /\ out' = <<>>
  /\ UNCHANGED <<sut, twin, rnode, tree, ltree, stree, model, last, prev>>

\* it.next()
IterNext ==
  /\ iter # None
  /\ NoneCount(out) < MaxNone
  /\ LET res == Iter_next(iter[1])
     IN /\ iter' = Some(res.iter)
        /\ out' = Append(out, res.item)
  /\ UNCHANGED <<sut, twin, rnode, tree, ltree, stree, model, last, prev>>

\* drop(it)
IterDrop ==
  /\ iter # None
  /\ iter' = None
  /\ out' = <<>>
  /\ UNCHANGED <<sut, twin, rnode, tree, ltree, stree, model, last, prev>>

NextIter ==
  \/ IterNew
  \/ IterNext
  \/ IterDrop

SpecIter == InitIter /\ [][NextIter]_vars

(***************************************************************************)
(* tree.rs: a run of SpecT drives the size-tracking Tree.                  *)
(***************************************************************************)
InitT ==
  /\ sut = "TreeRs"
  /\ Fresh

\* stree.insert(k, v)
TInsert(k, v) ==
  /\ stree.size < MaxSize
  /\ LET res == TreeRs_insert(stree, k, v)
     IN /\ stree' = res.t
        /\ last' = [NoCall EXCEPT !.op = "insert", !.k = k, !.v = v, !.ret = res.ret]
  /\ model' = [model EXCEPT ![k] = Some(v)]
  /\ UNCHANGED <<sut, twin, rnode, tree, ltree, iter, out, prev>>

\* stree.get(&k)
TGet(k) ==
  /\ last' = [NoCall EXCEPT !.op = "get", !.k = k, !.ret = TreeRs_get(stree, k)]
  /\ UNCHANGED <<sut, twin, rnode, tree, ltree, stree, iter, out, model, prev>>

NextT ==
  \/ \E k \in Keys, v \in Vals : TInsert(k, v)
  \/ \E k \in Keys : TGet(k)

SpecT == InitT /\ [][NextT]_vars

(***************************************************************************)
(* LTree<K, ()> as example.rs uses it, with a key order that answers each  *)
(* comparison arbitrarily.  A call is followed for one comparison more     *)
(* than there are slots.                                                   *)
(***************************************************************************)
CmpKeys == 1..MaxCmpKey

Unit == 0

Followed(t) == Len(t.node_slots) + 1

InitCmp ==
  /\ sut = "Cmp"
  /\ Fresh

\* ltree.insert(k, ())
CInsert(k) ==
  /\ Len(ltree.node_slots) < MaxSlots
  /\ \E res \in LTree_insert_by(ltree, k, Unit, Followed(ltree)) :
       /\ ltree' = res.t
       /\ last' = [NoCall EXCEPT !.op = "insert", !.k = k, !.v = Unit, !.lret = res.ret,
                                 !.lpanic = res.panic, !.cmps = res.cmps, !.more = res.more]
  /\ UNCHANGED <<sut, twin, rnode, tree, stree, iter, out, model, prev>>

\* ltree.get(&k)
CGet(k) ==
  /\ \E res \in LTree_get_by(ltree, k, Followed(ltree)) :
       last' = [NoCall EXCEPT !.op = "get", !.k = k, !.lret = res.ret,
                              !.lpanic = res.panic, !.cmps = res.cmps, !.more = res.more]
  /\ UNCHANGED <<sut, twin, rnode, tree, ltree, stree, iter, out, model, prev>>

NextCmp ==
  \/ \E k \in CmpKeys : CInsert(k)
  \/ \E k \in CmpKeys : CGet(k)

SpecCmp == InitCmp /\ [][NextCmp]_vars

(***************************************************************************)
(* LTree::new_slot on its own.  No operation of LTree pushes on            *)
(* free_slots, so a run of SpecSlot starts from an arena of at most        *)
(* MaxSlots slots in which free_slots lists the empty slots in some order, *)
(* and makes one new_slot call.                                            *)
(***************************************************************************)
SlotSeqs ==
  UNION {[1..n -> {None} \cup {Some(LNode_new(k, Unit)) : k \in Keys}] : n \in 0..MaxSlots}

FreeOrders(slots) ==
  LET empty == {i \in 0..(Len(slots) - 1) : slots[i + 1] = None}
  IN {f \in [1..Cardinality(empty) -> empty] :
        \A j1, j2 \in 1..Cardinality(empty) : j1 # j2 => f[j1] # f[j2]}

Arenas ==
  UNION {{[root |-> None, node_slots |-> slots, free_slots |-> f] : f \in FreeOrders(slots)}
           : slots \in SlotSeqs}

InitSlot ==
  /\ sut = "Slot"
  /\ tree = Tree_new
  /\ ltree \in Arenas
  /\ rnode = NodeRs_default
  /\ stree = TreeRs_new
  /\ twin = NoTwin
  /\ iter = None
  /\ out = <<>>
  /\ model = [k \in Keys |-> None]
  /\ last = NoCall
  /\ prev = NoPrev

\* let slot = ltree.new_slot()
NewSlot ==
  /\ last.op = "none"
  /\ LET ns == LTree_new_slot(ltree)
     IN /\ ltree' = ns.t
        /\ last' = [NoCall EXCEPT !.op = "new_slot", !.lret = Some(ns.slot),
                                  !.lpanic = ns.panic]
  /\ UNCHANGED <<sut, twin, rnode, tree, stree, iter, out, model, prev>>

NextSlot == NewSlot

SpecSlot == InitSlot /\ [][NextSlot]_vars

(***************************************************************************)
(* Two trees compared with == (the derived PartialEq: equality of every    *)
(* field).  A run of SpecEq builds tree and ltree and, next to them,       *)
(* twin.tree and twin.ltree, giving an insert call to both sides or to one *)
(* side only.                                                              *)
(***************************************************************************)
InitEq ==
  /\ sut = "Eq"
  /\ Fresh

\* tree.insert(k, v); ltree.insert(k, v) and the same calls on the twins
EqInsert(k, v) ==
  /\ tree' = Tree_insert(tree, k, v).tree
  /\ ltree' = LTree_insert(ltree, k, v).t
  /\ model' = [model EXCEPT ![k] = Some(v)]
  /\ twin' = [twin EXCEPT !.tree = Tree_insert(twin.tree, k, v).tree,
                          !.ltree = LTree_insert(twin.ltree, k, v).t,
                          !.model = [twin.model EXCEPT ![k] = Some(v)]]
  /\ UNCHANGED <<sut, rnode, stree, iter, out, last, prev>>

\* tree.insert(k, v); ltree.insert(k, v)
EqInsertA(k, v) ==
  /\ tree' = Tree_insert(tree, k, v).tree
  /\ ltree' = LTree_insert(ltree, k, v).t
  /\ model' = [model EXCEPT ![k] = Some(v)]
  /\ twin' = [twin EXCEPT !.same = FALSE]
  /\ UNCHANGED <<sut, rnode, stree, iter, out, last, prev>>

\* the insert calls on the twins only
EqInsertB(k, v) ==
  /\ twin' = [twin EXCEPT !.tree = Tree_insert(twin.tree, k, v).tree,
                          !.ltree = LTree_insert(twin.ltree, k, v).t,
                          !.model = [twin.model EXCEPT ![k] = Some(v)],
                          !.same = FALSE]
  /\ UNCHANGED <<sut, tree, ltree, rnode, stree, iter, out, model, last, prev>>

NextEq ==
  \/ \E k \in CmpKeys, v \in Vals : EqInsert(k, v)
  \/ \E k \in CmpKeys, v \in Vals : EqInsertA(k, v)
  \/ \E k \in CmpKeys, v \in Vals : EqInsertB(k, v)

SpecEq == InitEq /\ [][NextEq]_vars

(***************************************************************************)
(* Vocabulary of the properties                                            *)
(***************************************************************************)
Inserted == {k \in Keys : model[k] # None}

HasLeft(t) == t # None /\ t[1].l # None

HasRight(t) == t # None /\ t[1].r # None

RECURSIVE KeysOf(_)
KeysOf(t) == IF t = None THEN {} ELSE KeysOf(t[1].l) \cup {t[1].k} \cup KeysOf(t[1].r)

RECURSIVE IsBST(_)
IsBST(t) ==
  t = None \/
    /\ \A x \in KeysOf(t[1].l) : x < t[1].k
    /\ \A x \in KeysOf(t[1].r) : x > t[1].k
    /\ IsBST(t[1].l)
    /\ IsBST(t[1].r)

RECURSIVE InOrder(_)
InOrder(t) ==
  IF t = None THEN <<>> ELSE InOrder(t[1].l) \o <<<<t[1].k, t[1].v>>>> \o InOrder(t[1].r)

RECURSIVE PairsOf(_)
PairsOf(t) ==
  IF t = None THEN {} ELSE PairsOf(t[1].l) \cup {<<t[1].k, t[1].v>>} \cup PairsOf(t[1].r)

\* the items next() returns from iterator it until its first None, at most n of them
RECURSIVE Drain(_, _)
Drain(it, n) ==
  IF n = 0
    THEN <<>>
    ELSE LET res == Iter_next(it)
         IN IF res.item = None THEN <<>> ELSE <<res.item[1]>> \o Drain(res.iter, n - 1)

RECURSIVE Items(_)
Items(s) ==
  IF s = <<>>
    THEN <<>>
    ELSE IF Head(s) = None THEN Items(Tail(s)) ELSE <<Head(s)[1]>> \o Items(Tail(s))

RECURSIVE LKeysOf(_, _)
LKeysOf(t, link) ==
  IF link = None \/ ~(link[1] < Len(t.node_slots)) \/ t.node_slots[link[1] + 1] = None
    THEN {}
    ELSE LET node == t.node_slots[link[1] + 1][1]
         IN LKeysOf(t, node.l) \cup {node.k} \cup LKeysOf(t, node.r)

LiveSlots(t) == {i \in 1..Len(t.node_slots) : t.node_slots[i] # None}

InFree(t, i) == \E j \in 1..Len(t.free_slots) : t.free_slots[j] = i

SlotFreeInv(t) ==
  /\ \A i \in 0..(Len(t.node_slots) - 1) : InFree(t, i) <=> t.node_slots[i + 1] = None
  /\ \A j \in 1..Len(t.free_slots) : t.free_slots[j] \in 0..(Len(t.node_slots) - 1)
  /\ \A j1, j2 \in 1..Len(t.free_slots) : j1 # j2 => t.free_slots[j1] # t.free_slots[j2]

IsLive(t, i) == i \in 0..(Len(t.node_slots) - 1) /\ t.node_slots[i + 1] # None

LiveIdx(t) == {i \in 0..(Len(t.node_slots) - 1) : t.node_slots[i + 1] # None}

Children(t, i) ==
  LET node == t.node_slots[i + 1][1]
  IN {c \in 0..(Len(t.node_slots) - 1) : node.l = Some(c) \/ node.r = Some(c)}

RECURSIVE ReachN(_, _, _)
ReachN(t, set, n) ==
  IF n = 0
    THEN set
    ELSE ReachN(t, set \cup UNION {Children(t, i) : i \in set \cap LiveIdx(t)}, n - 1)

Reach(t) ==
  ReachN(t, {i \in 0..(Len(t.node_slots) - 1) : t.root = Some(i)}, Len(t.node_slots))

Refs(t, i) ==
  (IF t.root = Some(i) THEN 1 ELSE 0)
    + Cardinality({j \in LiveIdx(t) : t.node_slots[j + 1][1].l = Some(i)})
    + Cardinality({j \in LiveIdx(t) : t.node_slots[j + 1][1].r = Some(i)})

LinksLive(t) ==
  /\ t.root # None => IsLive(t, t.root[1])
  /\ \A j \in LiveIdx(t) :
       LET node == t.node_slots[j + 1][1]
       IN /\ node.l # None => IsLive(t, node.l[1])
          /\ node.r # None => IsLive(t, node.r[1])

TreeLinksInv(t) ==
  /\ LinksLive(t)
  /\ Reach(t) = LiveIdx(t)
  /\ \A i \in LiveIdx(t) : Refs(t, i) = 1

\* t2 is t with one leaf (k, v) added and nothing else changed
RECURSIVE AddsLeaf(_, _, _, _)
AddsLeaf(t, t2, k, v) ==
  IF t = None
    THEN t2 = Some(Node_new(k, v))
    ELSE /\ t2 # None
         /\ t2[1].k = t[1].k
         /\ t2[1].v = t[1].v
         /\ \/ t2[1].r = t[1].r /\ AddsLeaf(t[1].l, t2[1].l, k, v)
            \/ t2[1].l = t[1].l /\ AddsLeaf(t[1].r, t2[1].r, k, v)

RECURSIVE RAddsLeaf(_, _, _, _)
RAddsLeaf(n, n2, k, v) ==
  IF n.inner = None
    THEN n2 = NodeRs_new(k, v)
    ELSE /\ n2.inner # None
         /\ n2.inner[1].key = n.inner[1].key
         /\ n2.inner[1].value = n.inner[1].value
         /\ \/ n2.inner[1].right = n.inner[1].right
               /\ RAddsLeaf(n.inner[1].left, n2.inner[1].left, k, v)
            \/ n2.inner[1].left = n.inner[1].left
               /\ RAddsLeaf(n.inner[1].right, n2.inner[1].right, k, v)

LAddsLeaf(t, t2, k, v) ==
  LET new == Len(t.node_slots)
      changed == {i \in LiveIdx(t) : t2.node_slots[i + 1] # t.node_slots[i + 1]}
  IN /\ Len(t2.node_slots) = new + 1
     /\ t2.node_slots[new + 1] = Some(LNode_new(k, v))
     /\ t2.free_slots = t.free_slots
     /\ IF t.root = None
          THEN t2.root = Some(new) /\ changed = {}
          ELSE /\ t2.root = t.root
               /\ Cardinality(changed) = 1
               /\ \A i \in changed :
                    LET old == t.node_slots[i + 1][1]
                    IN \/ old.l = None
                          /\ t2.node_slots[i + 1] = Some([old EXCEPT !.l = Some(new)])
                       \/ old.r = None
                          /\ t2.node_slots[i + 1] = Some([old EXCEPT !.r = Some(new)])

\* a root with two leaf children has the smaller key on the left and the greater on the right
ExampleShape(t) ==
  (t # None /\ Tree_len(t) = 3 /\ t[1].l # None /\ t[1].r # None) =>
    (t[1].l[1].k < t[1].k /\ t[1].k < t[1].r[1].k)

RExampleShape(n) ==
  (n.inner # None /\ NodeRs_len(n) = 3
     /\ n.inner[1].left.inner # None /\ n.inner[1].right.inner # None) =>
    (n.inner[1].left.inner[1].key < n.inner[1].key
       /\ n.inner[1].key < n.inner[1].right.inner[1].key)

LExampleShape(t) ==
  (t.root # None /\ Len(t.node_slots) = 3) =>
    LET root == t.node_slots[t.root[1] + 1][1]
    IN (root.l # None /\ root.r # None) =>
         (t.node_slots[root.l[1] + 1][1].k < root.k
            /\ root.k < t.node_slots[root.r[1] + 1][1].k)

(***************************************************************************)
(* C1: the pairs an iterator over the boxed Tree has emitted are strictly  *)
(* ascending by key: each emitted key is less than the one emitted next.   *)
(***************************************************************************)
C1_IterAscending ==
  \A i \in 1..(Len(out) - 1) :
    (out[i] # None /\ out[i + 1] # None) => out[i][1][1] < out[i + 1][1][1]

C1_Witness ==
  /\ iter # None
  /\ Len(out) = 4
  /\ out[1] # None /\ out[2] # None /\ out[3] # None /\ out[4] = None
  /\ tree[1].l # None /\ tree[1].r # None

(***************************************************************************)
(* C2: get(k) on Tree and on LTree returns Some(v) for the value v last    *)
(* inserted for k, whatever else was inserted since.                       *)
(***************************************************************************)
C2_InsertGetRoundTrip ==
  (last.op = "get" /\ model[last.k] # None) =>
    /\ last.ret = model[last.k]
    /\ sut = "Pair" => (last.lret = model[last.k] /\ ~last.lpanic)

C2_Witness ==
  /\ sut = "Pair"
  /\ last.op = "get"
  /\ Inserted = Keys
  /\ tree[1].k # last.k
  /\ ltree.node_slots[ltree.root[1] + 1][1].k # last.k
  /\ last.ret = Some(MaxVal)
  /\ last.lret = Some(MaxVal)

(***************************************************************************)
(* C3: insert(k, v2) returns None when k was never inserted and Some(v1)   *)
(* when v1 is the value last inserted for k (Tree and LTree); after it     *)
(* get(k) is Some(v2); an insert of a key already held leaves len() of the *)
(* Tree as it was.                                                         *)
(***************************************************************************)
C3_UpdateSemantics ==
  [][last'.op = "insert" =>
       LET k == last'.k
           v == last'.v
       IN /\ last'.ret = model[k]
          /\ Tree_get(tree', k) = Some(v)
          /\ sut = "Pair" =>
               /\ last'.lret = model[k]
               /\ ~last'.lpanic
               /\ LTree_get(ltree', k) = [ret |-> Some(v), panic |-> FALSE]
          /\ (model[k] # None => Tree_len(tree') = Tree_len(tree))]_vars

C3_Witness ==
  /\ sut = "Pair"
  /\ last.op = "insert"
  /\ last.ret # None /\ last.ret[1] # last.v
  /\ last.lret = last.ret
  /\ Tree_get(tree, last.k) = Some(last.v)
  /\ Tree_len(tree) = Tree_len(last.pre)
  /\ Tree_len(tree) > 1

(***************************************************************************)
(* C4: len() of the boxed Tree is the number of distinct keys inserted.    *)
(***************************************************************************)
C4_LenIsDistinctKeys == Tree_len(tree) = Cardinality(Inserted)

C4_Witness ==
  /\ Tree_len(tree) = MaxKey
  /\ last.op = "insert"
  /\ last.ret # None

(***************************************************************************)
(* C5: in the LTree every key reachable through a live node's l index is   *)
(* less than the node's key, every key reachable through its r index is    *)
(* greater, and no two live nodes hold the same key.                       *)
(***************************************************************************)
C5_LTreeOrientation ==
  /\ \A i \in LiveSlots(ltree) :
       LET node == ltree.node_slots[i][1]
       IN /\ \A x \in LKeysOf(ltree, node.l) : x < node.k
          /\ \A x \in LKeysOf(ltree, node.r) : x > node.k
  /\ \A i, j \in LiveSlots(ltree) :
       i # j => ltree.node_slots[i][1].k # ltree.node_slots[j][1].k

(***************************************************************************)
(* C6: insert on the Tree of tree.rs stores the pair (as the root when the *)
(* tree is empty), so that get returns the value last inserted for a key.  *)
(***************************************************************************)
C6_TreeRsStores ==
  /\ last.op = "insert" => TreeRs_get(stree, last.k) = Some(last.v)
  /\ last.op = "get" => last.ret = model[last.k]

(***************************************************************************)
(* C7: get(k) for a key never inserted returns None on Tree and on LTree,  *)
(* the empty trees included, and does not panic.                           *)
(***************************************************************************)
C7_AbsentKeyIsNone ==
  (last.op = "get" /\ model[last.k] = None) =>
    /\ last.ret = None
    /\ sut = "Pair" => (last.lret = None /\ ~last.lpanic)

C7_Witness ==
  /\ sut = "Pair"
  /\ last.op = "get"
  /\ model[last.k] = None
  /\ Cardinality(Inserted) = MaxKey - 1
  /\ Cardinality(LiveSlots(ltree)) = MaxKey - 1
  /\ last.ret = None
  /\ last.lret = None
  /\ ~last.lpanic

(***************************************************************************)
(* C8: when the root has a left child, rotate_r and then rotate_l gives    *)
(* back the tree as it was; when the root has a right child, rotate_l and  *)
(* then rotate_r does.                                                     *)
(***************************************************************************)
C8_RoundTripWithPivot ==
  /\ (last.op = "rotate_l" /\ prev.op = "rotate_r" /\ HasLeft(prev.pre)) => tree = prev.pre
  /\ (last.op = "rotate_r" /\ prev.op = "rotate_l" /\ HasRight(prev.pre)) => tree = prev.pre

C8_Witness ==
  /\ last.op = "rotate_l"
  /\ prev.op = "rotate_r"
  /\ HasLeft(prev.pre)
  /\ prev.pre[1].l[1].r # None
  /\ tree = prev.pre
  /\ last.pre # tree

(***************************************************************************)
(* C9 as stated: for any tree, rotate_r right after rotate_l restores the  *)
(* shape before the rotate_l, and rotate_l right after rotate_r restores   *)
(* the shape before the rotate_r.                                          *)
(***************************************************************************)
C9_RoundTripAnyTree ==
  /\ (last.op = "rotate_r" /\ prev.op = "rotate_l") => tree = prev.pre
  /\ (last.op = "rotate_l" /\ prev.op = "rotate_r") => tree = prev.pre

(***************************************************************************)
(* C9 amended: rotate_r right after rotate_l restores the shape before the *)
(* rotate_l exactly when the root had a right child or had no left child;  *)
(* rotate_l right after rotate_r restores the shape before the rotate_r    *)
(* exactly when the root had a left child or had no right child.           *)
(***************************************************************************)
C9_RoundTripUnlessNoOp ==
  /\ (last.op = "rotate_r" /\ prev.op = "rotate_l") =>
       (tree = prev.pre <=> (HasRight(prev.pre) \/ ~HasLeft(prev.pre)))
  /\ (last.op = "rotate_l" /\ prev.op = "rotate_r") =>
       (tree = prev.pre <=> (HasLeft(prev.pre) \/ ~HasRight(prev.pre)))

C9_Witness ==
  /\ last.op = "rotate_r"
  /\ prev.op = "rotate_l"
  /\ HasRight(prev.pre)
  /\ HasLeft(prev.pre)
  /\ last.pre # tree
  /\ tree = prev.pre

(***************************************************************************)
(* C10: a rotation of a tree that satisfies the BST ordering invariant     *)
(* leaves it satisfying the invariant, with the same in-order sequence of  *)
(* (key, value) pairs and the same number of nodes.                        *)
(***************************************************************************)
C10_RotationPreserves ==
  (IsRotation(last.op) /\ IsBST(last.pre)) =>
    /\ IsBST(tree)
    /\ InOrder(tree) = InOrder(last.pre)
    /\ Tree_len(tree) = Tree_len(last.pre)

C10_Witness ==
  /\ last.op = "rotate_r"
  /\ IsBST(last.pre)
  /\ Tree_len(last.pre) = MaxKey
  /\ last.pre[1].l # None /\ last.pre[1].l[1].r # None
  /\ tree # last.pre

(***************************************************************************)
(* C11: rotate_r at a root P with left child L makes L the root, P the     *)
(* right child of L and L's former right subtree the left subtree of P,    *)
(* and leaves L's left subtree and P's right subtree as they were;         *)
(* rotate_l is the mirror image with the right child as pivot.             *)
(***************************************************************************)
C11_RotationShape ==
  /\ (last.op = "rotate_r" /\ HasLeft(last.pre)) =>
       LET P == last.pre[1]
           L == P.l[1]
       IN /\ tree # None
          /\ tree[1].k = L.k /\ tree[1].v = L.v
          /\ tree[1].l = L.l
          /\ tree[1].r # None
          /\ tree[1].r[1].k = P.k /\ tree[1].r[1].v = P.v
          /\ tree[1].r[1].l = L.r
          /\ tree[1].r[1].r = P.r
  /\ (last.op = "rotate_l" /\ HasRight(last.pre)) =>
       LET P == last.pre[1]
           R == P.r[1]
       IN /\ tree # None
          /\ tree[1].k = R.k /\ tree[1].v = R.v
          /\ tree[1].r = R.r
          /\ tree[1].l # None
          /\ tree[1].l[1].k = P.k /\ tree[1].l[1].v = P.v
          /\ tree[1].l[1].r = R.l
          /\ tree[1].l[1].l = P.l

C11_Witness ==
  /\ last.op = "rotate_l"
  /\ HasRight(last.pre)
  /\ last.pre[1].r[1].l # None
  /\ tree[1].l[1].r = last.pre[1].r[1].l
  /\ tree[1].k = last.pre[1].r[1].k

(***************************************************************************)
(* C12: rotate_r on an empty tree or on a root without a left child, and   *)
(* rotate_l on an empty tree or on a root without a right child, leave the *)
(* tree equal to what it was.                                              *)
(***************************************************************************)
C12_RotationNoOp ==
  /\ (last.op = "rotate_r" /\ ~HasLeft(last.pre)) => tree = last.pre
  /\ (last.op = "rotate_l" /\ ~HasRight(last.pre)) => tree = last.pre

C12_Witness ==
  /\ last.op = "rotate_r"
  /\ last.pre # None
  /\ ~HasLeft(last.pre)
  /\ HasRight(last.pre)
  /\ tree = last.pre

(***************************************************************************)
(* C13: after every LTree operation each slot index below node_slots.len() *)
(* is either in free_slots and holds None, or is not in free_slots and     *)
(* holds a node; free_slots has no duplicate and no out-of-range index.    *)
(***************************************************************************)
C13_SlotFreeInvariant == SlotFreeInv(ltree)

C13_Witness ==
  /\ sut = "Pair"
  /\ last.op = "insert"
  /\ last.lret = None
  /\ Len(ltree.node_slots) = MaxKey
  /\ Cardinality(LiveIdx(ltree)) = MaxKey
  /\ ltree.free_slots = <<>>

(***************************************************************************)
(* C14: the slots reachable from root through l and r are exactly the      *)
(* slots that hold a node, each of them is referenced exactly once (by     *)
(* root or by one l or r), and every stored index points to a live slot.   *)
(***************************************************************************)
C14_NoLeakNoAlias == TreeLinksInv(ltree)

C14_Witness ==
  /\ sut = "Pair"
  /\ Cardinality(LiveIdx(ltree)) = MaxKey
  /\ Reach(ltree) = LiveIdx(ltree)
  /\ ltree.node_slots[ltree.root[1] + 1][1].l # None
  /\ ltree.node_slots[ltree.root[1] + 1][1].r # None

(***************************************************************************)
(* C15: an LTree insert of a key not yet inserted makes one new_slot call  *)
(* and raises the number of live slots by one; an insert of a key already  *)
(* held makes none and leaves node_slots.len(), free_slots, root and every *)
(* link as they were, changing only the value of the node with that key.   *)
(***************************************************************************)
C15_AllocationCount ==
  [][(sut = "Pair" /\ last'.op = "insert") =>
       LET k == last'.k
           allocs == (Len(ltree'.node_slots) - Len(ltree.node_slots))
                       + (Len(ltree.free_slots) - Len(ltree'.free_slots))
       IN IF model[k] = None
            THEN /\ allocs = 1
                 /\ Cardinality(LiveIdx(ltree')) = Cardinality(LiveIdx(ltree)) + 1
            ELSE /\ allocs = 0
                 /\ Len(ltree'.node_slots) = Len(ltree.node_slots)
                 /\ ltree'.free_slots = ltree.free_slots
                 /\ ltree'.root = ltree.root
                 /\ \A i \in 1..Len(ltree.node_slots) :
                      \/ ltree'.node_slots[i] = ltree.node_slots[i]
                      \/ /\ ltree.node_slots[i] # None
                         /\ ltree.node_slots[i][1].k = k
                         /\ ltree'.node_slots[i] =
                              Some([ltree.node_slots[i][1] EXCEPT !.v = last'.v])]_vars

C15_Witness ==
  /\ sut = "Pair"
  /\ last.op = "insert"
  /\ last.lret # None /\ last.lret[1] # last.v
  /\ Len(ltree.node_slots) = MaxKey
  /\ Cardinality(LiveIdx(ltree)) = MaxKey
  /\ ltree.node_slots[ltree.root[1] + 1][1].k # last.k

(***************************************************************************)
(* C16: no LTree insert or get indexes node_slots out of range, unwraps a  *)
(* None slot or fails a debug_assert.                                      *)
(***************************************************************************)
C16_NoInvalidSlot == sut = "Pair" => ~last.lpanic

C16_Witness ==
  /\ sut = "Pair"
  /\ last.op = "get"
  /\ ~last.lpanic
  /\ last.lret # None
  /\ Cardinality(LiveIdx(ltree)) = MaxKey
  /\ ltree.node_slots[ltree.root[1] + 1][1].k # last.k
  /\ Cardinality(Children(ltree, ltree.root[1])) = 1
  /\ \A c \in Children(ltree, ltree.root[1]) : ltree.node_slots[c + 1][1].k # last.k

(***************************************************************************)
(* C17: whatever the key comparison answers, every LTree insert and get    *)
(* returns after at most one comparison per node, without a panic, and     *)
(* leaves the arena invariants in place: a slot holds a node iff it is not *)
(* in free_slots, root and every l and r point to a live slot, and the     *)
(* links form a tree.                                                      *)
(***************************************************************************)
C17_NonTotalOrderRobust ==
  sut = "Cmp" =>
    /\ ~last.lpanic
    /\ ~last.more
    /\ last.cmps <= Cardinality(LiveIdx(ltree))
    /\ SlotFreeInv(ltree)
    /\ TreeLinksInv(ltree)

C17_Witness ==
  /\ sut = "Cmp"
  /\ last.op = "get"
  /\ last.lret = None
  /\ last.cmps = MaxSlots
  /\ Cardinality(LiveIdx(ltree)) = MaxSlots
  /\ \E i \in LiveIdx(ltree) : ltree.node_slots[i + 1][1].k = last.k
  /\ \E i, j \in LiveIdx(ltree) :
       i # j /\ ltree.node_slots[i + 1][1].k = ltree.node_slots[j + 1][1].k

(***************************************************************************)
(* C18: a next() call on an iterator over a Tree returns Some while fewer  *)
(* than len() items were emitted and None from then on; each item is a     *)
(* node of the tree that was not emitted before; and the call returns None *)
(* exactly when the left-spine descent leaves curr absent and the stack    *)
(* empty.                                                                  *)
(***************************************************************************)
C18_IterTerminatesCovers ==
  [][(iter # None /\ iter' # None /\ Len(out') = Len(out) + 1) =>
       LET d == NodeIter_descend(iter[1])
           item == out'[Len(out')]
       IN /\ item = None <=> (d.curr = None /\ d.stack = <<>>)
          /\ item = None <=> Len(out) >= Tree_len(tree)
          /\ item # None =>
               /\ item[1] \in PairsOf(tree)
               /\ \A i \in 1..Len(out) : out[i] # item]_vars

C18_Witness ==
  /\ iter # None
  /\ Tree_len(tree) = 3
  /\ Len(out) = 4
  /\ out[3] # None /\ out[4] = None
  /\ tree[1].l = None /\ tree[1].r # None /\ tree[1].r[1].l # None
  /\ {out[i][1] : i \in 1..3} = PairsOf(tree)

(***************************************************************************)
(* C19: once next() has returned None every later next() on that iterator  *)
(* returns None; at any point of an iterator's life a new iterator over    *)
(* the tree yields the sequence that iterator yields in all (what it has   *)
(* emitted followed by what it still emits); and no iterator step changes  *)
(* the tree.                                                               *)
(***************************************************************************)
C19_StickyNoneSameSequence ==
  [][/\ tree' = tree
     /\ iter' # None =>
          /\ \A i, j \in 1..Len(out') : (i < j /\ out'[i] = None) => out'[j] = None
          /\ Items(out') \o Drain(iter'[1], Tree_len(tree') + 1)
               = Drain(NodeIter_new(tree'), Tree_len(tree') + 1)]_vars

C19_Witness ==
  /\ iter # None
  /\ Tree_len(tree) = 2
  /\ Len(out) = 4
  /\ out[2] # None /\ out[3] = None /\ out[4] = None
  /\ Items(out) = Drain(NodeIter_new(tree), 3)
  /\ Len(Items(out)) = 2

(***************************************************************************)
(* C20: the size counter of the Tree of tree.rs equals the number of       *)
(* distinct keys inserted and the number of nodes reachable from root.     *)
(***************************************************************************)
C20_SizeIsNodeCount ==
  sut = "TreeRs" =>
    /\ stree.size = Cardinality(Inserted)
    /\ stree.size = (IF stree.root = None THEN 0 ELSE NodeRs_len(stree.root[1]))

(***************************************************************************)
(* C21: on an arena that satisfies the slot/free-list invariant, new_slot  *)
(* returns the last entry of free_slots and keeps node_slots.len() when    *)
(* free_slots is not empty, and otherwise appends one None slot and        *)
(* returns its index; the returned slot holds None, is not in free_slots   *)
(* afterwards, and no other slot changes.                                  *)
(***************************************************************************)
C21_NewSlotPolicy ==
  [][(sut = "Slot" /\ last'.op = "new_slot" /\ SlotFreeInv(ltree)) =>
       LET slot == last'.lret[1]
           n == Len(ltree.free_slots)
       IN /\ ~last'.lpanic
          /\ n > 0 =>
               /\ slot = ltree.free_slots[n]
               /\ ltree'.free_slots = SubSeq(ltree.free_slots, 1, n - 1)
               /\ ltree'.node_slots = ltree.node_slots
          /\ n = 0 =>
               /\ ltree'.node_slots = Append(ltree.node_slots, None)
               /\ slot = Len(ltree'.node_slots) - 1
               /\ ltree'.free_slots = <<>>
          /\ slot \in 0..(Len(ltree'.node_slots) - 1)
          /\ ltree'.node_slots[slot + 1] = None
          /\ ~InFree(ltree', slot)]_vars

C21_Witness ==
  /\ sut = "Slot"
  /\ last.op = "new_slot"
  /\ Len(ltree.node_slots) = MaxSlots
  /\ Len(ltree.free_slots) = 1
  /\ last.lret[1] < ltree.free_slots[1]
  /\ LiveIdx(ltree) # {}
  /\ ltree.node_slots[last.lret[1] + 1] = None

(***************************************************************************)
(* C22: an insert of a key not yet in the tree adds one leaf and changes   *)
(* nothing else, in the boxed Tree, in the Node of node.rs and in the      *)
(* LTree; and a root with two leaf children (as after inserting 1, 0, 2)   *)
(* has the smaller key as its left child and the greater as its right.     *)
(***************************************************************************)
C22_InsertAddsLeaf ==
  [][(sut = "Pair" /\ last'.op = "insert" /\ model[last'.k] = None) =>
       /\ AddsLeaf(tree, tree', last'.k, last'.v)
       /\ RAddsLeaf(rnode, rnode', last'.k, last'.v)
       /\ LAddsLeaf(ltree, ltree', last'.k, last'.v)
       /\ ExampleShape(tree')
       /\ RExampleShape(rnode')
       /\ LExampleShape(ltree')]_vars

(***************************************************************************)
(* C23: an insert(k, v) leaves the result of get(k2) as it was for every   *)
(* key k2 other than k, on the boxed Tree and on the LTree.                *)
(***************************************************************************)
C23_InsertKeepsOtherKeys ==
  [][last'.op = "insert" =>
       \A k2 \in Keys \ {last'.k} :
         /\ Tree_get(tree', k2) = Tree_get(tree, k2)
         /\ sut = "Pair" => LTree_get(ltree', k2) = LTree_get(ltree, k2)]_vars

C23_Witness ==
  /\ sut = "Pair"
  /\ last.op = "insert"
  /\ last.ret = None
  /\ Cardinality(Inserted) = MaxKey
  /\ tree[1].k < last.k
  /\ tree[1].r # None /\ tree[1].r[1].k < last.k
  /\ \A k2 \in Keys \ {last.k} :
       Tree_get(tree, k2) = model[k2] /\ LTree_get(ltree, k2).ret = model[k2]

(***************************************************************************)
(* C24: given the same insert and get calls from empty, the boxed Tree and *)
(* the LTree return the same result from every insert and every get.       *)
(***************************************************************************)
C24_TreeAndLTreeAgree ==
  (sut = "Pair" /\ last.op \in {"insert", "get"}) =>
    (last.ret = last.lret /\ ~last.lpanic)

C24_Witness ==
  /\ sut = "Pair"
  /\ last.op = "get"
  /\ last.ret # None
  /\ last.ret = last.lret
  /\ Cardinality(Inserted) = MaxKey
  /\ tree[1].k # last.k
  /\ tree[1].l # None /\ tree[1].r # None
  /\ ltree.node_slots[ltree.root[1] + 1][1].l # None
  /\ ltree.node_slots[ltree.node_slots[ltree.root[1] + 1][1].l[1] + 1][1].k = tree[1].r[1].k

(***************************************************************************)
(* C25: two Trees, and two LTrees, built from empty by the same sequence   *)
(* of insert calls are equal (for LTree in root, node_slots and            *)
(* free_slots); two that hold different keys or different values are not   *)
(* equal.                                                                  *)
(***************************************************************************)
C25_EqualityDeterministic ==
  sut = "Eq" =>
    /\ twin.same => (tree = twin.tree /\ ltree = twin.ltree)
    /\ model # twin.model => (tree # twin.tree /\ ltree # twin.ltree)

C25_Witness ==
  /\ sut = "Eq"
  /\ ~twin.same
  /\ model # twin.model
  /\ KeysOf(tree) = KeysOf(twin.tree)
  /\ Cardinality(KeysOf(tree)) = MaxCmpKey
  /\ tree[1].k = twin.tree[1].k
  /\ tree # twin.tree
  /\ ltree # twin.ltree

(***************************************************************************)
(* C26: on a tree whose root has a right child rotate_l gives a tree that  *)
(* is not equal to the one before, with another key at the root; likewise  *)
(* rotate_r on a tree whose root has a left child.                         *)
(***************************************************************************)
C26_RotationChangesShape ==
  /\ (last.op = "rotate_l" /\ HasRight(last.pre)) =>
       (tree # last.pre /\ tree # None /\ tree[1].k # last.pre[1].k)
  /\ (last.op = "rotate_r" /\ HasLeft(last.pre)) =>
       (tree # last.pre /\ tree # None /\ tree[1].k # last.pre[1].k)

C26_Witness ==
  /\ last.op = "rotate_l"
  /\ HasRight(last.pre)
  /\ IsBST(last.pre)
  /\ Tree_len(last.pre) = MaxKey
  /\ tree # last.pre
  /\ tree[1].k = last.pre[1].r[1].k
  /\ InOrder(tree) = InOrder(last.pre)

(***************************************************************************)
(* C27: on the boxed Tree, under inserts and rotations, is_empty() is true *)
(* exactly when len() is 0, which is exactly when no insert was made; once *)
(* is_empty() is false it stays false.                                     *)
(***************************************************************************)
C27_IsEmptyAgreesWithLen ==
  [][/\ Tree_is_empty(tree) <=> Tree_len(tree) = 0
     /\ Tree_is_empty(tree') <=> Tree_len(tree') = 0
     /\ Tree_is_empty(tree) <=> \A k \in Keys : model[k] = None
     /\ Tree_is_empty(tree') <=> \A k \in Keys : model'[k] = None
     /\ ~Tree_is_empty(tree) => ~Tree_is_empty(tree')]_vars

C27_Witness ==
  /\ sut = "Tree"
  /\ IsRotation(last.op)
  /\ IsRotation(prev.op)
  /\ prev.pre # None
  /\ Tree_len(tree) = 1
  /\ ~Tree_is_empty(tree)

====
